---- MODULE Spec2Model ----
(***************************************************************************)
(* Model of the turtle command-and-control server (src/src/main.ts).       *)
(*                                                                         *)
(* One Turtle object exists per websocket, so a turtle is identified by    *)
(* the id of its connection.  Node runs one event at a time and drains the *)
(* microtask queue after it, hence every action below is one event (a      *)
(* console line, a websocket message / error / close) together with all    *)
(* promise continuations that the event releases.  Handlers are operators  *)
(* from a state record to a state record, composed in program order.       *)
(***************************************************************************)
EXTENDS Integers, Sequences, FiniteSets, TLC

\* ---- bounds of the model ------------------------------------------------
MaxConns == 2
MaxUnanswered == 1

\* ---- program constants --------------------------------------------------
DetachThreshold == 10
FuelRoundTrips == 2
InspectRoundTrips == 1
ProbesPerStep == 5

\* the connection ids: Spec lets MaxConns turtles connect, WideSpec one more
Conns == 1..(MaxConns + 1)
Names == {"alpha", "beta"}
Null == 0
Console == 0
ReqIds == 0..(MaxUnanswered + 3)

TunnelCounts == {-1, 0, 2}
MoveCounts == {0, 2}
ProspectLimits == {0, 2}

NoTask == [kind |-> "none", idx |-> 0, len |-> 0, probe |-> 0]
NoCmd == [left |-> 0]
NoReq == -1

VARIABLES
  conn,       \* conn[c]: "new" (no handshake yet), "open", "closed"
  name,       \* name[c]: Turtle.name of the turtle created for connection c
  status,     \* status[c]: Turtle.status
  turtles,    \* the registry array, in push order
  active,     \* the active turtle or Null
  onMessage,  \* onMessage[c]: getReply messageCallbacks registered on c
  onError,    \* onError[c]: getReply errorCallbacks registered on c
  onClose,    \* onClose[c]: getReply closeCallbacks registered on c
  pending,    \* the getReply promises that are not settled
  inflight,   \* inflight[c]: requests sent on c whose reply has not arrived
  task,       \* task[c]: the detached run (repeat / prospect) against c
  cmd,        \* the interactive command the console loop is suspended in
  halted,     \* "no", "exit" (process.exit(0)) or "crash"
  out,        \* what the console loop wrote during the last step
  settled     \* the getReply promises settled during the last step

vars == <<conn, name, status, turtles, active, onMessage, onError, onClose,
          pending, inflight, task, cmd, halted, out, settled>>

St == [conn |-> conn, name |-> name, status |-> status, turtles |-> turtles,
       active |-> active, onMessage |-> onMessage, onError |-> onError,
       onClose |-> onClose, pending |-> pending, inflight |-> inflight,
       task |-> task, cmd |-> cmd, halted |-> halted,
       out |-> "none", settled |-> <<>>, unhandled |-> FALSE]

\* ---- sequences -----------------------------------------------------------
Without(q, w) == SelectSeq(q, LAMBDA x : x # w)

Range(q) == {q[i] : i \in 1..Len(q)}

\* turtles.find((turtle) => turtle.name === n): the first match, or Null
Find(s, n) ==
  LET hits == {i \in 1..Len(s.turtles) : s.name[s.turtles[i]] = n}
  IN IF hits = {} THEN Null
     ELSE s.turtles[CHOOSE i \in hits : \A j \in hits : i <= j]

\* ---- websocket -----------------------------------------------------------
\* Requests carry an id so that a reply can be told from the reply to another
\* request; an id is reused once nothing on the connection refers to it: no
\* unanswered request and no unsettled wait.
UsedIds(s, c) ==
  Range(s.inflight[c]) \cup {w.expect : w \in {x \in s.pending : x.conn = c}}

FreshId(s, c) ==
  CHOOSE i \in ReqIds \ UsedIds(s, c) : \A j \in ReqIds \ UsedIds(s, c) : i <= j

\* ws.send(payload): the request travels to the turtle, which answers every
\* request once and in order.  A send on a socket that is no longer open is
\* discarded.
Send(s, c) ==
  IF s.conn[c] = "open"
  THEN [s EXCEPT !.inflight[c] = Append(@, FreshId(s, c))]
  ELSE s

\* the request most recently sent on c, if its reply has not arrived yet
LastSent(s, c) ==
  IF s.inflight[c] = <<>> THEN NoReq ELSE s.inflight[c][Len(s.inflight[c])]

\* ---- getReply ------------------------------------------------------------
\* The promise executor of getReply: the three callbacks of one wait are
\* registered on the websocket of t.
Register(s, owner, t) ==
  LET w == [owner |-> owner, conn |-> t, expect |-> LastSent(s, t)]
  IN [s EXCEPT !.onError[t] = Append(@, w),
               !.onClose[t] = Append(@, w),
               !.onMessage[t] = Append(@, w),
               !.pending = @ \cup {w}]

\* getReply(turtle) rejects at once when no turtle is given and none is active
GetReplyFails(s, turtle) == turtle = Null /\ s.active = Null

GetReplyTarget(s, turtle) == IF turtle = Null THEN s.active ELSE turtle

\* ---- assign / release ----------------------------------------------------
\* assign(): called with s.active # Null by every caller
assign_StaysIdle(s) == [s EXCEPT !.active = Null]

assign_StaysActive(s) == [s EXCEPT !.status[s.active] = "BUSY"]

assign(s) ==
  [s EXCEPT !.status[s.active] = "BUSY", !.active = Null]

release_AlwaysActivates(s, t) ==
  [s EXCEPT !.status[t] = "IDLE", !.active = t]

release(s, t) ==
  LET s1 == [s EXCEPT !.status[t] = "IDLE"]
  IN IF s1.active = Null THEN [s1 EXCEPT !.active = t] ELSE s1

TaskDie_Releases(s, t) ==
  release([s EXCEPT !.task[t] = NoTask, !.unhandled = TRUE], t)

\* a detached async function ends by throwing: nothing awaits its promise
TaskDie(s, t) == [s EXCEPT !.task[t] = NoTask, !.unhandled = TRUE]

TaskEnd(s, t) == release([s EXCEPT !.task[t] = NoTask], t)

\* ---- repeat --------------------------------------------------------------
RepeatLoop_OneMore(s, t) ==
  IF s.task[t].idx >= 0
  THEN Register(Send(s, t), t, t)
  ELSE TaskEnd(s, t)

\* the for loop of repeat, entered with idx = s.task[t].idx
RepeatLoop(s, t) ==
  IF s.task[t].idx > 0
  THEN Register(Send(s, t), t, t)
  ELSE TaskEnd(s, t)

\* repeat(count, command) up to its first await
repeat(s, count) ==
  LET t == s.active
      s1 == assign(s)
  IN RepeatLoop([s1 EXCEPT !.task[t] = [NoTask EXCEPT !.kind = "repeat",
                                                      !.idx = count]], t)

RepeatResume(s, t) ==
  RepeatLoop([s EXCEPT !.task[t].idx = @ - 1], t)

\* ---- prospect ------------------------------------------------------------
ProspectAwait_OwnTurtle(s, t, p) ==
  Register([s EXCEPT !.task[t].probe = p], t, t)

\* `await getReply()` inside the prospect closure: no turtle is passed, so
\* the wait goes to whatever turtle is active at that moment
ProspectAwait(s, t, p) ==
  IF GetReplyFails(s, Null)
  THEN TaskDie(s, t)
  ELSE Register([s EXCEPT !.task[t].probe = p], t, GetReplyTarget(s, Null))

\* one iteration of the for loop of the prospect closure, up to its first await
ProspectLoop(s, t) ==
  IF s.task[t].idx < s.task[t].len
  THEN ProspectAwait(Send(Send(s, t), t), t, 1)
  ELSE TaskEnd(s, t)

prospect(s, len) ==
  LET t == s.active
      s1 == assign(s)
  IN ProspectLoop([s1 EXCEPT !.task[t] = [NoTask EXCEPT !.kind = "prospect",
                                                        !.len = len]], t)

\* the closure resumes with a reply; hit: the reply includes the resource
ProspectResume(s, t, hit) ==
  IF hit
  THEN TaskEnd(s, t)
  ELSE IF s.task[t].probe < ProbesPerStep
       THEN ProspectAwait(Send(s, t), t, s.task[t].probe + 1)
       ELSE ProspectLoop([s EXCEPT !.task[t].idx = @ + 1,
                                   !.task[t].probe = 0], t)

\* ---- the console loop ----------------------------------------------------
\* the catch of commandLoop: the error is written and the loop reads on
CmdCatch(s, why) == [s EXCEPT !.cmd = NoCmd, !.out = why]

CmdRoundTrip_RegisterFirst(s) ==
  IF s.active = Null
  THEN CmdCatch(s, "TypeError")
  ELSE Send(Register(s, Console, s.active), s.active)

\* `active.ws.send(...); await getReply()` of an interactive command
CmdRoundTrip(s) ==
  IF s.active = Null
  THEN CmdCatch(s, "TypeError")
  ELSE Register(Send(s, s.active), Console, s.active)

\* an interactive command with n round trips left: the movement loop, the
\* single round trip of inspect and exec, the two of fuel
CmdLoop(s, n) ==
  IF n > 0
  THEN CmdRoundTrip([s EXCEPT !.cmd = [left |-> n]])
  ELSE [s EXCEPT !.cmd = NoCmd]

CmdResume(s) == CmdLoop(s, s.cmd.left - 1)

\* ---- settling a wait -----------------------------------------------------
Resolve(s, w, got, hit) ==
  LET s1 == [s EXCEPT !.settled = Append(@, [wait |-> w, how |-> "message",
                                              got |-> got])]
  IN IF w.owner = Console
     THEN CmdResume(s1)
     ELSE IF s1.task[w.owner].kind = "repeat"
          THEN RepeatResume(s1, w.owner)
          ELSE ProspectResume(s1, w.owner, hit)

Reject(s, w, why) ==
  LET s1 == [s EXCEPT !.settled = Append(@, [wait |-> w, how |-> why,
                                              got |-> NoReq])]
  IN IF w.owner = Console THEN CmdCatch(s1, why) ELSE TaskDie(s1, w.owner)

messageCallback_LeavesSiblings(s, w) == [s EXCEPT !.pending = @ \ {w}]

\* messageCallback of wait w: its siblings are unregistered, then resolve(msg)
messageCallback(s, w) ==
  [s EXCEPT !.onError[w.conn] = Without(@, w),
            !.onClose[w.conn] = Without(@, w),
            !.pending = @ \ {w}]

errorCallback(s, w) ==
  [s EXCEPT !.onClose[w.conn] = Without(@, w),
            !.onMessage[w.conn] = Without(@, w),
            !.pending = @ \ {w}]

closeCallback(s, w) ==
  [s EXCEPT !.onError[w.conn] = Without(@, w),
            !.onMessage[w.conn] = Without(@, w),
            !.pending = @ \ {w}]

RECURSIVE EmitMessage(_, _)
EmitMessage(s, ws) ==
  IF ws = <<>> THEN s ELSE EmitMessage(messageCallback(s, Head(ws)), Tail(ws))

RECURSIVE EmitError(_, _)
EmitError(s, ws) ==
  IF ws = <<>> THEN s ELSE EmitError(errorCallback(s, Head(ws)), Tail(ws))

RECURSIVE EmitClose(_, _)
EmitClose(s, ws) ==
  IF ws = <<>> THEN s ELSE EmitClose(closeCallback(s, Head(ws)), Tail(ws))

\* the continuations of the promises settled by one event, in callback order;
\* settling a promise that is already settled does nothing
RECURSIVE ResolveAll(_, _, _, _, _)
ResolveAll(s, ws, live, got, hit) ==
  IF ws = <<>> THEN s
  ELSE ResolveAll(IF Head(ws) \in live THEN Resolve(s, Head(ws), got, hit) ELSE s,
                  Tail(ws), live \ {Head(ws)}, got, hit)

RECURSIVE RejectAll(_, _, _, _)
RejectAll(s, ws, live, why) ==
  IF ws = <<>> THEN s
  ELSE RejectAll(IF Head(ws) \in live THEN Reject(s, Head(ws), why) ELSE s,
                 Tail(ws), live \ {Head(ws)}, why)

\* ---- events ---------------------------------------------------------------
HandshakeEvent_AlwaysPromotes(s, c, n) ==
  [s EXCEPT !.conn[c] = "open", !.name[c] = n, !.status[c] = "IDLE",
            !.turtles = Append(@, c), !.active = c]

\* wss "connection" followed by the first message on the socket: the handshake
HandshakeEvent(s, c, n) ==
  LET s1 == [s EXCEPT !.conn[c] = "open", !.name[c] = n, !.status[c] = "IDLE",
                      !.turtles = Append(@, c)]
  IN IF s1.active = Null THEN [s1 EXCEPT !.active = c] ELSE s1

RegistryClose_FilterDiscarded(s, c) ==
  IF s.active # Null /\ s.name[s.active] = s.name[c]
  THEN [s EXCEPT !.active = Null]
  ELSE s

\* the close handler installed by the handshake; it is the first close
\* listener of the socket
RegistryClose(s, c) ==
  LET n == s.name[c]
      s1 == [s EXCEPT !.turtles = SelectSeq(@, LAMBDA t : s.name[t] # n)]
  IN IF s1.active # Null /\ s1.name[s1.active] = n
     THEN [s1 EXCEPT !.active = Null]
     ELSE s1

\* "close" is emitted on socket c
CloseEvent(s, c) ==
  LET ws == s.onClose[c]
      s1 == RegistryClose(s, c)
      s2 == [s1 EXCEPT !.conn[c] = "closed", !.inflight[c] = <<>>,
                       !.onClose[c] = <<>>]
  IN RejectAll(EmitClose(s2, ws), ws, s.pending, "connection closed")

\* "error" is emitted on socket c
ErrorEvent(s, c) ==
  LET ws == s.onError[c]
      s1 == [s EXCEPT !.onError[c] = <<>>]
  IN RejectAll(EmitError(s1, ws), ws, s.pending, "error")

MessageEvent_KeepsUnheard(s, c, hit) ==
  LET ws == s.onMessage[c]
      got == Head(s.inflight[c])
      s1 == [s EXCEPT !.inflight[c] = Tail(@), !.onMessage[c] = <<>>]
  IN IF ws = <<>> THEN s
     ELSE ResolveAll(EmitMessage(s1, ws), ws, s.pending, got, hit)

\* "message" is emitted on socket c: the reply to the oldest unanswered request
MessageEvent(s, c, hit) ==
  LET ws == s.onMessage[c]
      got == Head(s.inflight[c])
      s1 == [s EXCEPT !.inflight[c] = Tail(@), !.onMessage[c] = <<>>]
  IN ResolveAll(EmitMessage(s1, ws), ws, s.pending, got, hit)

\* ---- console commands ----------------------------------------------------
select_NoBusyCheck(s, n) ==
  LET selected == Find(s, n)
  IN IF selected = Null THEN [s EXCEPT !.out = "no such turtle"]
     ELSE [s EXCEPT !.active = selected, !.out = "selected"]

select(s, n) ==
  LET selected == Find(s, n)
  IN IF selected = Null THEN [s EXCEPT !.out = "no such turtle"]
     ELSE IF s.status[selected] = "BUSY" THEN [s EXCEPT !.out = "busy"]
     ELSE [s EXCEPT !.active = selected, !.out = "selected"]

\* left, right, dig, place, attack, suck, drop, slot, refuel, transfer, equip,
\* craft and the movement commands without a count: send and do not wait
sendOnly(s) ==
  IF s.active = Null THEN [s EXCEPT !.out = "expects an active turtle"]
  ELSE Send(s, s.active)

\* forward | back | up | down with a count
move(s, count) ==
  IF s.active = Null THEN [s EXCEPT !.out = "expects an active turtle"]
  ELSE IF count > DetachThreshold
       THEN repeat(s, count)
       ELSE CmdLoop(s, count)

\* inspect, exec (one round trip) and fuel (two)
query(s, kind) ==
  IF s.active = Null THEN [s EXCEPT !.out = "expects an active turtle"]
  ELSE CmdLoop(s, IF kind = "fuel" THEN FuelRoundTrips ELSE InspectRoundTrips)

tunnel(s, len) ==
  IF s.active = Null THEN [s EXCEPT !.out = "expects an active turtle"]
  ELSE repeat(s, len)

prospectCmd(s, len) ==
  IF s.active = Null THEN [s EXCEPT !.out = "expects an active turtle"]
  ELSE prospect(s, len)

\* help, list, a wrong number of arguments, an unknown command
other(s) == s

\* exit: every registered socket is closed, then process.exit(0)
exit(s) ==
  [s EXCEPT !.conn = [c \in Conns |->
                        IF c \in Range(s.turtles) THEN "closed" ELSE @[c]],
            !.halted = "exit", !.out = "exit"]

\* ---- the state machine ---------------------------------------------------
Init ==
  /\ conn = [c \in Conns |-> "new"]
  /\ name = [c \in Conns |-> "alpha"]
  /\ status = [c \in Conns |-> "IDLE"]
  /\ turtles = <<>>
  /\ active = Null
  /\ onMessage = [c \in Conns |-> <<>>]
  /\ onError = [c \in Conns |-> <<>>]
  /\ onClose = [c \in Conns |-> <<>>]
  /\ pending = {}
  /\ inflight = [c \in Conns |-> <<>>]
  /\ task = [c \in Conns |-> NoTask]
  /\ cmd = NoCmd
  /\ halted = "no"
  /\ out = "none"
  /\ settled = <<>>

\* The handler has run to its suspension points.  A detached run that ended
\* by throwing leaves an unhandled promise rejection, which Node either only
\* warns about or turns into a fatal uncaught exception, depending on its
\* version and flags.
Apply(r) ==
  /\ conn' = r.conn
  /\ name' = r.name
  /\ status' = r.status
  /\ turtles' = r.turtles
  /\ active' = r.active
  /\ onMessage' = r.onMessage
  /\ onError' = r.onError
  /\ onClose' = r.onClose
  /\ pending' = r.pending
  /\ inflight' = r.inflight
  /\ task' = r.task
  /\ cmd' = r.cmd
  /\ out' = r.out
  /\ settled' = r.settled
  /\ halted' \in (IF r.unhandled THEN {r.halted, "crash"} ELSE {r.halted})

Running == halted = "no"

Reading_WhileSuspended == Running

\* io.question has a line for the loop only while no command is suspended
Reading == Running /\ cmd = NoCmd

RECURSIVE Unanswered(_)
Unanswered(C) ==
  IF C = {} THEN 0
  ELSE LET c == CHOOSE x \in C : TRUE
       IN Len(inflight[c]) + Unanswered(C \ {c})

\* the operator types a command that sends only while at most MaxUnanswered
\* requests, over all turtles, are still unanswered
CanSend == active = Null \/ Unanswered(Conns) <= MaxUnanswered

\* turtle names are interchangeable: the first turtle to connect is alpha
CanName(n) == conn[1] = "new" => n = "alpha"

NextConn == CHOOSE c \in Conns : conn[c] = "new" /\ \A d \in Conns : conn[d] = "new" => c <= d

\* the number of turtles that have connected so far
Handshakes == Cardinality({c \in Conns : conn[c] # "new"})

Connect(n) ==
  /\ Running
  /\ Handshakes < MaxConns
  /\ CanName(n)
  /\ Apply(HandshakeEvent(St, NextConn, n))

Close(c) ==
  /\ Running
  /\ conn[c] = "open"
  /\ Apply(CloseEvent(St, c))

Error(c) ==
  /\ Running
  /\ conn[c] = "open"
  /\ onError[c] # <<>>
  /\ Apply(ErrorEvent(St, c))

\* whether a reply includes the resource matters to a prospect run only
Hits(c) ==
  IF \E w \in pending : w.conn = c /\ w.owner # Console /\ task[w.owner].kind = "prospect"
  THEN BOOLEAN ELSE {FALSE}

Message(c) ==
  /\ Running
  /\ conn[c] = "open"
  /\ inflight[c] # <<>>
  /\ \E hit \in Hits(c) : Apply(MessageEvent(St, c, hit))

CmdSelect(n) == Reading /\ Apply(select(St, n))

CmdSendOnly == Reading /\ CanSend /\ Apply(sendOnly(St))

CmdMove(count) == Reading /\ CanSend /\ Apply(move(St, count))

CmdQuery(kind) == Reading /\ CanSend /\ Apply(query(St, kind))

CmdTunnel(len) == Reading /\ CanSend /\ Apply(tunnel(St, len))

CmdProspect(len) == Reading /\ CanSend /\ Apply(prospectCmd(St, len))

CmdOther == Reading /\ Apply(other(St))

CmdExit == Reading /\ Apply(exit(St))

Next ==
  \/ \E n \in Names : Connect(n)
  \/ \E c \in Conns : Close(c)
  \/ \E c \in Conns : Error(c)
  \/ \E c \in Conns : Message(c)
  \/ \E n \in Names : CmdSelect(n)
  \/ \E len \in TunnelCounts : CmdTunnel(len)
  \/ \E len \in ProspectLimits : CmdProspect(len)
  \/ CmdSendOnly
  \/ \E count \in MoveCounts : CmdMove(count)
  \/ \E kind \in {"inspect", "fuel"} : CmdQuery(kind)
  \/ CmdOther
  \/ CmdExit

Spec == Init /\ [][Next]_vars

\* every turtle answers each request it has received: a reply that can be
\* delivered is delivered (unless the connection closes first)
FairSpec == Spec /\ \A c \in Conns : WF_vars(Message(c))

\* A narrower console (movement commands only) with one more turtle: the
\* behaviours in which a turtle connects after another has disconnected while
\* a third is in the middle of an interactive command.
WideConnect(n) ==
  /\ Running
  /\ Handshakes < MaxConns + 1
  /\ CanName(n)
  /\ Apply(HandshakeEvent(St, NextConn, n))

WideNext ==
  \/ \E n \in Names : WideConnect(n)
  \/ \E c \in Conns : Close(c)
  \/ \E c \in Conns : Message(c)
  \/ \E count \in MoveCounts : CmdMove(count)

WideSpec == Init /\ [][WideNext]_vars

\* ---- sanity of the model --------------------------------------------------
TypeOK ==
  /\ conn \in [Conns -> {"new", "open", "closed"}]
  /\ name \in [Conns -> Names]
  /\ status \in [Conns -> {"IDLE", "BUSY"}]
  /\ Range(turtles) \subseteq Conns
  /\ active \in Conns \cup {Null}
  /\ \A c \in Conns : Range(inflight[c]) \subseteq ReqIds
  /\ \A c \in Conns : Cardinality(Range(inflight[c])) = Len(inflight[c])
  /\ halted \in {"no", "exit", "crash"}

Registered(c) == Range(onMessage[c]) \cup Range(onError[c]) \cup Range(onClose[c])

WaitsOn(c) == {w \in pending : w.conn = c}

TaskRunning(c) == task[c].kind # "none"

\* ---- C1 -------------------------------------------------------------------
\* C1: in every reachable state every turtle is BUSY exactly when a detached
\* run (repeat or prospect) that called assign() for it is still executing.
C1_BusyIffTaskRunning ==
  \A c \in Conns : conn[c] # "new" => (status[c] = "BUSY" <=> TaskRunning(c))

\* ---- C2 -------------------------------------------------------------------
\* C2: in every reachable state every connection has at most one unsettled
\* getReply wait registered on it.
C2_OneWaitPerConnection ==
  \A c \in Conns : Cardinality(WaitsOn(c)) <= 1 /\ Len(onMessage[c]) <= 1

\* a console wait and the wait of a detached run are outstanding together
C2_Witness ==
  \E v, w \in pending : v.owner = Console /\ w.owner # Console /\ v.conn # w.conn

\* ---- C3 -------------------------------------------------------------------
\* C3: a wait is settled by the first of message, error and close, and from
\* then on none of its callbacks is registered: every callback registered on
\* a connection belongs to an unsettled wait, each unsettled wait on an open
\* connection still has each of its three callbacks once, and no wait is
\* settled twice by one event.
C3_SettledWaitUnregistered ==
  /\ \A c \in Conns : Registered(c) \subseteq pending
  /\ \A w \in pending : conn[w.conn] = "open" =>
       /\ Len(SelectSeq(onMessage[w.conn], LAMBDA x : x = w)) = 1
       /\ Len(SelectSeq(onError[w.conn], LAMBDA x : x = w)) = 1
       /\ Len(SelectSeq(onClose[w.conn], LAMBDA x : x = w)) = 1
  /\ \A i, j \in DOMAIN settled : settled[i].wait = settled[j].wait => i = j

\* a wait has just been resolved by a message on a connection that stays
\* open, so that later messages, errors and a close can still occur on it
C3_Witness ==
  \E i \in DOMAIN settled :
    settled[i].how = "message" /\ conn[settled[i].wait.conn] = "open"

\* ---- C4 -------------------------------------------------------------------
\* C4: with turtles that answer every request once and in order, a wait
\* resolves with the reply to the request sent on its connection immediately
\* before the wait was registered.
C4_ReplyAnswersLastRequest ==
  \A i \in DOMAIN settled :
    settled[i].how = "message" => settled[i].got = settled[i].wait.expect

\* ---- C5 -------------------------------------------------------------------
\* C5: select never makes a BUSY turtle active; naming a BUSY turtle reports
\* busy and leaves active, every status and the registry unchanged.
C5_SelectRefusesBusy ==
  [][\A n \in Names :
       (cmd = NoCmd /\ out' # "none" /\ CmdSelect(n)) =>
         /\ active' # active => status[active'] = "IDLE"
         /\ (Find(St, n) # Null /\ status[Find(St, n)] = "BUSY") =>
              (out' = "busy" /\ UNCHANGED <<active, status, turtles>>)]_vars

\* a select has just been refused because the named turtle is BUSY
C5_Witness == out = "busy"

\* ---- C6 -------------------------------------------------------------------
\* C6: whenever a detached run against a turtle ends, by whatever path, while
\* no turtle is active, that turtle becomes the active one (stated for the
\* turtles that are still connected when their run ends).
C6_EndedTaskBecomesActive ==
  [][\A c \in Conns :
       /\ TaskRunning(c) /\ ~TaskRunning(c)'
       /\ active = Null /\ conn'[c] = "open" /\ halted' = "no"
       => active' = c]_vars

\* ---- C7 -------------------------------------------------------------------
\* the console line that starts repeat(n, ...) on the active turtle A
C7_Start(A, n) ==
  /\ active = A /\ cmd = NoCmd /\ out' = "none"
  /\ \/ n \in TunnelCounts /\ CmdTunnel(n)
     \/ n \in MoveCounts /\ n > DetachThreshold /\ CmdMove(n)

\* what holds once the starting line has been processed
C7_Detached(A) ==
  /\ cmd' = NoCmd /\ halted' = "no"
  /\ status'[A] = "BUSY" /\ active' # A /\ task'[A].kind = "repeat"

\* a select issued while the run against A is going on
C7_Selects(A) ==
  \A m \in Names :
    (task[A].kind = "repeat" /\ cmd = NoCmd /\ out' # "none" /\ CmdSelect(m)) =>
      /\ Find(St, m) = A => (out' = "busy" /\ active' = active)
      /\ (Find(St, m) \notin {Null, A} /\ status[Find(St, m)] = "IDLE") =>
           (active' = Find(St, m) /\ task'[A] = task[A])

C8_ProspectRunsToItsEnd ==
  [][/\ \A len \in ProspectLimits :
          (CmdProspect(len) /\ active # Null /\ len >= 1) =>
            /\ task'[active].kind = "prospect"
            /\ \E w \in pending' : w.owner = active
     /\ \A c \in Conns :
          (task[c].kind = "prospect" /\ task'[c].kind = "none") =>
            (status'[c] = "IDLE" /\ (active = Null => active' = c))]_vars

\* ---- C9 -------------------------------------------------------------------
\* C9: when a connection closes under an outstanding wait of the console, the
\* wait is rejected with "connection closed", the console reads on, the turtle
\* is gone from the registry, and active is Null if that turtle was active.
C9_CloseRejectsConsoleWait ==
  [][\A c \in Conns : \A w \in pending :
       (w.owner = Console /\ w.conn = c /\ Close(c)) =>
         /\ \E i \in DOMAIN settled' :
              settled'[i].wait = w /\ settled'[i].how = "connection closed"
         /\ out' = "connection closed" /\ cmd' = NoCmd /\ w \notin pending'
         /\ c \notin Range(turtles')
         /\ active = c => active' = Null]_vars

\* a console wait has just been rejected by the close of its connection
C9_Witness ==
  /\ out = "connection closed"
  /\ \E i \in DOMAIN settled :
       /\ settled[i].wait.owner = Console
       /\ conn[settled[i].wait.conn] = "closed"

\* ---- C10 ------------------------------------------------------------------
\* C10: no failed wait ends the process or the console loop: after a failure
\* in an interactive command the loop reads the next line, and a failure in a
\* detached run ends that run only.
C10_FailedWaitContained ==
  /\ halted # "crash"
  /\ out \in {"connection closed", "error", "TypeError"} =>
       (cmd = NoCmd /\ halted = "no")

\* ---- C11 ------------------------------------------------------------------
\* C11: with turtles that answer every request, every registered turtle that
\* is BUSY is eventually IDLE again or gone from the registry (the process
\* ending is the only other way out).
C11_BusyBecomesIdle ==
  \A c \in Conns :
    (status[c] = "BUSY" /\ c \in Range(turtles) /\ halted = "no")
      ~> (status[c] = "IDLE" \/ c \notin Range(turtles) \/ halted # "no")

\* ---- C12 ------------------------------------------------------------------
\* C12: a detached run has at most one request of its own unanswered: the step
\* that starts a run against a turtle (assign() makes it BUSY) sends at most
\* one request to it, and a step in which the run consumes a reply sends at
\* most one more.
C12_OneRequestAtATime ==
  [][\A c \in Conns :
       /\ (active = c /\ status[c] = "IDLE" /\ status'[c] = "BUSY") =>
            Len(inflight'[c]) <= Len(inflight[c]) + 1
       /\ (TaskRunning(c) /\ \E i \in DOMAIN settled' :
                               /\ settled'[i].wait.owner = c
                               /\ settled'[i].wait.conn = c
                               /\ settled'[i].how = "message") =>
            Len(inflight'[c]) <= Len(inflight[c])]_vars

\* ---- C13 ------------------------------------------------------------------
\* C13: the active turtle, if any, is IDLE in every state, and a request sent
\* to a turtle against which no run is in progress (a request of the console
\* loop, or the first request of a run being started) goes to the active
\* turtle, which is IDLE at that moment.
C13_ActiveIsIdle ==
  [][/\ active # Null => status[active] = "IDLE"
     /\ active' # Null => status'[active'] = "IDLE"
     /\ \A c \in Conns :
          (Len(inflight'[c]) > Len(inflight[c]) /\ ~TaskRunning(c)) =>
            (active = c /\ status[c] = "IDLE")]_vars

\* the console has a request unanswered at the active turtle while another
\* turtle is BUSY
C13_Witness ==
  /\ active # Null /\ inflight[active] # <<>>
  /\ \E c \in Conns : status[c] = "BUSY" /\ c \in Range(turtles)

\* ---- C14 ------------------------------------------------------------------
\* the console line that starts a detached run on the active turtle A
C14_Start(A) ==
  /\ active = A /\ cmd = NoCmd /\ out' = "none"
  /\ \/ \E n \in TunnelCounts : CmdTunnel(n)
     \/ \E n \in ProspectLimits : CmdProspect(n)
     \/ \E n \in MoveCounts : n > DetachThreshold /\ CmdMove(n)

\* C14: assign() is only ever applied to an IDLE turtle against which no run
\* is in progress, so a run in progress is never replaced or joined by a
\* second run against the same turtle.
C14_AssignOnlyIdle ==
  [][\A A \in Conns :
       /\ C14_Start(A) => (status[A] = "IDLE" /\ ~TaskRunning(A))
       /\ (TaskRunning(A) /\ TaskRunning(A)') =>
            (task'[A].kind = task[A].kind /\ task'[A].idx <= task[A].idx)]_vars

\* a run has been started against one turtle while a run against another
\* turtle is in progress
C14_Witness ==
  \E A, B \in Conns : A # B /\ TaskRunning(A) /\ TaskRunning(B)

\* ---- C15 ------------------------------------------------------------------
\* C15: the console sent one request to turtle A, which had no other request
\* unanswered, and awaits the reply (the last round trip of its command): when
\* A's reply arrives, exactly that wait is settled, it resolves with that
\* reply, and afterwards no wait and no callback is registered on A.
C15_RoundTrip ==
  [][\A A \in Conns : \A w \in pending :
       (/\ w.owner = Console /\ w.conn = A /\ cmd = [left |-> 1]
        /\ inflight[A] = <<w.expect>>
        /\ Message(A)) =>
         /\ settled' = <<[wait |-> w, how |-> "message", got |-> Head(inflight[A])]>>
         /\ cmd' = NoCmd
         /\ {v \in pending' : v.conn = A} = {}
         /\ onMessage'[A] = <<>> /\ onError'[A] = <<>> /\ onClose'[A] = <<>>]_vars

\* the console's wait has just resolved with the reply to its own request and
\* nothing is registered on that connection any more
C15_Witness ==
  /\ cmd = NoCmd /\ Len(settled) = 1
  /\ settled[1].wait.owner = Console /\ settled[1].how = "message"
  /\ settled[1].got = settled[1].wait.expect
  /\ Registered(settled[1].wait.conn) = {}

C17_Entries(n) == {i \in DOMAIN turtles : name[turtles[i]] = n}

\* C17: the registry holds at most one turtle per name, and a name resolves
\* to the turtle registered last under it.
C17_LastRegistrationWins ==
  \A n \in Names :
    /\ Cardinality(C17_Entries(n)) <= 1
    /\ \A i \in C17_Entries(n) :
         (\A j \in C17_Entries(n) : j <= i) => Find(St, n) = turtles[i]

\* ---- C18 ------------------------------------------------------------------
\* C18: when the connection of turtle c closes, the registry loses c and
\* nothing else, every other turtle keeps its status, and active changes only
\* if it was c, to Null.
C18_CloseRemovesOnlyThat ==
  [][\A c \in Conns :
       (conn[c] = "open" /\ conn'[c] = "closed" /\ Close(c)) =>
         /\ turtles' = SelectSeq(turtles, LAMBDA t : t # c)
         /\ \A d \in Conns \ {c} : status'[d] = status[d]
         /\ active' = IF active = c THEN Null ELSE active]_vars

\* ---- C19 ------------------------------------------------------------------
\* C19: repeat(N, ...) with N >= 1 sends its first request when it starts and
\* then one request per reply while replies are still owed: with idx the
\* number of requests not yet answered to the run, the start sends one request
\* and sets idx to N; a reply with idx > 1 is followed by exactly one more
\* request; the reply with idx = 1 is followed by no request and the run ends
\* with its turtle IDLE.  N requests are sent in all.
C19_RepeatSendsExactlyN ==
  [][\A A \in Conns :
       /\ \A n \in TunnelCounts \cup MoveCounts :
            (n >= 1 /\ C7_Start(A, n)) =>
              /\ task'[A].kind = "repeat" /\ task'[A].idx = n
              /\ Len(inflight'[A]) = Len(inflight[A]) + 1
       /\ (task[A].kind = "repeat" /\ inflight[A] # <<>> /\ Message(A)) =>
            /\ task[A].idx >= 1
            /\ IF task[A].idx > 1
               THEN /\ task'[A] = [task[A] EXCEPT !.idx = @ - 1]
                    /\ Len(inflight'[A]) = Len(inflight[A])
                    /\ status'[A] = "BUSY"
               ELSE /\ task'[A] = NoTask
                    /\ Len(inflight'[A]) = Len(inflight[A]) - 1
                    /\ status'[A] = "IDLE"]_vars

\* a repetition has just ended with the reply to its last request
C19_Witness ==
  \E A \in Conns :
    /\ task[A] = NoTask /\ status[A] = "IDLE" /\ Len(settled) = 1
    /\ settled[1].wait.owner = A /\ settled[1].how = "message"

\* ---- C20 ------------------------------------------------------------------
\* C20: when the connection of a turtle closes while a run against it is in
\* progress, the run ends there, the turtle stays BUSY, is removed from the
\* registry and is not active; and from then on a closed turtle never gets a
\* request, never returns to the registry, never becomes active and never
\* changes its status.
C20_ClosedBusyStaysOut ==
  [][\A c \in Conns :
       /\ (TaskRunning(c) /\ conn[c] = "open" /\ conn'[c] = "closed" /\ Close(c)) =>
            /\ ~TaskRunning(c)' /\ status'[c] = "BUSY"
            /\ inflight'[c] = <<>> /\ {w \in pending' : w.owner = c} = {}
            /\ c \notin Range(turtles') /\ active' # c
       /\ (conn[c] = "closed" /\ halted = "no") =>
            /\ conn'[c] = "closed" /\ status'[c] = status[c]
            /\ inflight'[c] = <<>> /\ ~TaskRunning(c)'
            /\ c \notin Range(turtles') /\ active' # c]_vars

\* the wait of a run has just been rejected by the close of its connection,
\* the console reads on
C20_Witness ==
  \E c \in Conns :
    /\ conn[c] = "closed" /\ status[c] = "BUSY" /\ halted = "no"
    /\ \E i \in DOMAIN settled :
         settled[i].wait.owner = c /\ settled[i].how = "connection closed"

\* ---- C21 ------------------------------------------------------------------
\* C21: the process halts only through the exit command, which leaves the
\* connection of every registered turtle, BUSY or IDLE, closed.
C21_HaltOnlyByExit ==
  [][(halted = "no" /\ halted' # "no") =>
       /\ halted' = "exit" /\ out' = "exit" /\ cmd = NoCmd
       /\ \A c \in Range(turtles) : conn'[c] = "closed"]_vars

\* ---- C22 ------------------------------------------------------------------
\* C22: when a run against turtle c ends through release(c), c becomes IDLE,
\* active becomes c if it was Null and is unchanged otherwise (in particular
\* when another turtle is active), and no other status and no registry entry
\* changes.
C22_ReleaseFrame ==
  [][\A c \in Conns :
       (TaskRunning(c) /\ ~TaskRunning(c)' /\ status'[c] = "IDLE") =>
         /\ active' = IF active = Null THEN c ELSE active
         /\ \A d \in Conns \ {c} : status'[d] = status[d]
         /\ turtles' = turtles /\ name' = name /\ conn' = conn]_vars

\* a run has just ended through release while another turtle is active
C22_Witness ==
  \E c \in Conns :
    /\ status[c] = "IDLE" /\ ~TaskRunning(c) /\ active \notin {Null, c}
    /\ \E i \in DOMAIN settled :
         settled[i].wait.owner = c /\ settled[i].how = "message"

\* ---- C23 ------------------------------------------------------------------
\* C23: a run with at least one iteration started on the active turtle A
\* makes A BUSY and leaves no turtle active, also when other IDLE turtles are
\* registered; no other status and no registry entry changes.
C23_AssignFrame ==
  [][\A A \in Conns :
       (/\ active = A /\ cmd = NoCmd /\ out' = "none"
        /\ \/ \E n \in TunnelCounts : n >= 1 /\ CmdTunnel(n)
           \/ \E n \in ProspectLimits : n >= 1 /\ CmdProspect(n)
           \/ \E n \in MoveCounts : n > DetachThreshold /\ CmdMove(n)) =>
         /\ status'[A] = "BUSY" /\ active' = Null
         /\ \A d \in Conns \ {A} : status'[d] = status[d]
         /\ turtles' = turtles /\ name' = name /\ conn' = conn]_vars

\* a run holds one turtle, no turtle is active, and another registered turtle
\* is IDLE
C23_Witness ==
  /\ active = Null
  /\ \E A, B \in Conns :
       /\ A # B /\ TaskRunning(A) /\ status[A] = "BUSY"
       /\ B \in Range(turtles) /\ status[B] = "IDLE" /\ conn[B] = "open"

\* ---- C24 ------------------------------------------------------------------
\* C24: getReply() called without a turtle while no turtle is active (the
\* prospect closure does so right after assign()) fails at once: its caller
\* is ended by the rejection and no callback is registered on any connection.
C24_NoTurtleNoListener ==
  [][\A A \in Conns : \A n \in ProspectLimits :
       (active = A /\ cmd = NoCmd /\ n >= 1 /\ CmdProspect(n)) =>
         /\ ~TaskRunning(A)' /\ status'[A] = "BUSY"
         /\ pending' = pending
         /\ onMessage' = onMessage /\ onError' = onError /\ onClose' = onClose]_vars

\* the prospect closure has been ended by the rejection: its turtle is BUSY
\* with its two requests unanswered and nothing registered on its connection
C24_Witness ==
  \E A \in Conns :
    /\ conn[A] = "open" /\ status[A] = "BUSY" /\ ~TaskRunning(A)
    /\ Registered(A) = {} /\ Len(inflight[A]) >= 2

\* ---- C25 ------------------------------------------------------------------
\* A wait records in `expect` the request sent last on its connection when
\* its callbacks were registered, so the order of the send and the
\* registration of one round trip can be read off an unsettled wait.
\*
\* C25 as amended: the payload is sent first and the callbacks of the wait
\* are registered right after it, in the same turn: every unsettled wait on an
\* open connection was registered when its request had already been sent, and
\* that request is still the last one sent on the connection.
C25_SendThenRegister ==
  \A w \in pending :
    conn[w.conn] = "open" =>
      (w.expect # NoReq /\ w.expect = LastSent(St, w.conn))

\* C25 as stated: the callbacks of the wait are registered before the payload
\* is sent, so the request sent last when a wait was registered is never the
\* request the wait is for.
C25_RegisterThenSend ==
  \A w \in pending :
    conn[w.conn] = "open" => w.expect # LastSent(St, w.conn)

\* a run and an interactive command both await the reply to the request they
\* have just sent
C25_Witness ==
  \E v, w \in pending :
    /\ v.owner = Console /\ w.owner # Console
    /\ conn[v.conn] = "open" /\ conn[w.conn] = "open"
    /\ inflight[v.conn] = <<v.expect>> /\ inflight[w.conn] = <<w.expect>>

\* ---- C26 ------------------------------------------------------------------
\* C26: a message that arrives on a connection on which no wait is registered
\* is dropped: it is gone from the connection, it settles no wait and resumes
\* nothing, and no status, the active turtle and the registry do not change;
\* a wait registered later can only get a later message.
C26_UnheardMessageDropped ==
  [][\A c \in Conns :
       (onMessage[c] = <<>> /\ inflight[c] # <<>> /\ Message(c)) =>
         /\ inflight' = [inflight EXCEPT ![c] = Tail(@)]
         /\ settled' = <<>> /\ out' = "none"
         /\ UNCHANGED <<conn, name, status, turtles, active, onMessage,
                        onError, onClose, pending, task, cmd, halted>>]_vars

\* the reply to an earlier request has been dropped while the turtle still
\* owes the reply to a later one, and nothing is registered on its connection
C26_Witness ==
  \E c \in Conns :
    /\ conn[c] = "open" /\ c \in Range(turtles) /\ Registered(c) = {}
    /\ settled = <<>> /\ inflight[c] # <<>> /\ Head(inflight[c]) # 0

\* ---- C27 ------------------------------------------------------------------
\* the console loop takes a line
C27_ConsoleStep ==
  \/ \E n \in Names : CmdSelect(n)
  \/ \E len \in TunnelCounts : CmdTunnel(len)
  \/ \E len \in ProspectLimits : CmdProspect(len)
  \/ CmdSendOnly
  \/ \E count \in MoveCounts : CmdMove(count)
  \/ \E kind \in {"inspect", "fuel"} : CmdQuery(kind)
  \/ CmdOther
  \/ CmdExit

\* C27: the console loop takes no line while an interactive command is
\* suspended in one of its round trips, so at most one interactive command is
\* in progress: it has exactly one wait outstanding, and the console has no
\* wait outstanding when no command is in progress.
C27_OneCommandAtATime ==
  [][/\ cmd # NoCmd => ~C27_ConsoleStep
     /\ Cardinality({w \in pending' : w.owner = Console}) =
          (IF cmd' = NoCmd THEN 0 ELSE 1)]_vars

\* an interactive command is in its second round trip
C27_Witness ==
  /\ cmd = [left |-> 1] /\ halted = "no"
  /\ \E i \in DOMAIN settled :
       settled[i].wait.owner = Console /\ settled[i].how = "message"

\* ---- C28 ------------------------------------------------------------------
\* C28: in every reachable state the active turtle, if any, is in the
\* registry.
C28_ActiveIsRegistered ==
  active # Null => active \in Range(turtles)

\* ---- C29 ------------------------------------------------------------------
\* C29: an interactive command with several round trips that goes on after a
\* reply sends its next request to the turtle that gave the reply, and to no
\* other, and registers its next wait on that turtle's connection, whatever
\* has connected, disconnected or finished in between.
C29_CommandKeepsItsTurtle ==
  [][\A w \in pending :
       (/\ w.owner = Console /\ cmd # NoCmd /\ cmd.left > 1
        /\ Message(w.conn) /\ cmd' # NoCmd) =>
         /\ \A v \in pending' : v.owner = Console => v.conn = w.conn
         /\ Len(inflight'[w.conn]) = Len(inflight[w.conn])
         /\ \A d \in Conns \ {w.conn} : inflight'[d] = inflight[d]]_vars

\* ---- C30 ------------------------------------------------------------------
\* C30: a run started on the active turtle A with a count or limit of zero or
\* less sends no request and registers no wait, and when the command returns
\* A is IDLE and is the active turtle again.
C30_EmptyRunIsNoop ==
  [][\A A \in Conns :
       (/\ active = A /\ cmd = NoCmd
        /\ \/ \E n \in TunnelCounts : n <= 0 /\ CmdTunnel(n)
           \/ \E n \in ProspectLimits : n <= 0 /\ CmdProspect(n)) =>
         /\ inflight' = inflight /\ pending' = pending
         /\ onMessage' = onMessage /\ onError' = onError /\ onClose' = onClose
         /\ status'[A] = "IDLE" /\ active' = A /\ ~TaskRunning(A)'
         /\ cmd' = NoCmd /\ halted' = "no"]_vars

\* the console is reading with an IDLE active turtle to which nothing has been
\* sent, while a run against another turtle goes on: the state in which an
\* empty run is dispatched, and the state it leaves
C30_Witness ==
  /\ active # Null /\ status[active] = "IDLE" /\ ~TaskRunning(active)
  /\ cmd = NoCmd /\ out = "none" /\ settled = <<>> /\ inflight[active] = <<>>
  /\ \E c \in Conns : TaskRunning(c) /\ halted = "no"

\* ---- C31 ------------------------------------------------------------------
\* C31: with turtles that answer every request, every interactive command
\* that is suspended in a round trip comes to its end and the console loop
\* reads its next line.
C31_CommandTerminates ==
  (cmd # NoCmd) ~> (cmd = NoCmd /\ halted = "no")

====
